---- MODULE Spec2Model ----
(***************************************************************************)
(* Model of the billing-retrieval service (FastAPI application):           *)
(*   app/api/routes.py            retrieve_billing_data, check_job_status  *)
(*   app/workers/job_handler.py   run_scraper_job, _run_scraper_task,      *)
(*                                handle_job_failure,                      *)
(*                                send_webhook_notification                *)
(*   app/services/billingservice.py   run_scraper, safe_find_and_click,    *)
(*                                wait_for_selector_with_retry,            *)
(*                                download_and_validate                    *)
(*   app/services/storageservice.py   StorageService                       *)
(*   app/utils/redis_helper.py    set_job_status, get_job_status           *)
(*                                                                         *)
(* Spec          the life of the jobs: the request handler, then the       *)
(*               background task the framework runs after the response.    *)
(* SpecUpload    StorageService.upload_files on one directory.             *)
(* SpecWebhook   one job, its send_webhook_notification call taken one     *)
(*               loop iteration at a time.                                 *)
(* SpecResolver  one call of safe_find_and_click.                          *)
(* SpecQuery     one job, and check_job_status asked at any moment.        *)
(* SpecCollect   the download handlers of one session, then upload_files   *)
(*               on the directory they filled.                             *)
(* SpecEngine    one job, the steps of run_scraper that resolve an element *)
(*               told apart.                                               *)
(* SpecDirs      the download folders of the jobs' sessions, by the clock. *)
(***************************************************************************)
EXTENDS Integers, Sequences, FiniteSets, TLC

\* The job ids (uuid4 values, distinct by construction).
Jobs == {"job_a", "job_b"}

\* config.MAX_PAGES = int(os.getenv("MAX_PAGES", 50)): the configured page limit.
MAX_PAGES == 2

\* send_webhook_notification(..., max_retries: int = 3)
WEBHOOK_MAX_RETRIES == 3

\* The clock runs from 0 to MaxNow ticks.
MaxNow == 3

\* The ticks of the clock in one second.
TicksPerSecond == 2

\* storageservice.py:19: MAX_RETRIES = 3
MAX_RETRIES == 3

\* storageservice.py:20: RETRY_DELAY = 2
RETRY_DELAY == 2

\* storageservice.py:70: part_size = 5 * 1024 * 1024  # 5MB per part
part_size == 5 * 1024 * 1024

\* billingservice.py:86: safe_find_and_click(page, selectors, retries=3, delay=2.0)
CLICK_RETRIES == 3

\* billingservice.py:72: wait_for_selector_with_retry(page, selector, retries: int = 3, ...)
WAIT_RETRIES == 3

\* The largest number of locators of a selector chain.
MaxChain == 2

\* The largest number of entries of the directory given to upload_files.
MaxFiles == 2

\* The sizes a file of the directory may have: empty, the part size and its
\* neighbours, and more than two parts.
FileSizes == {0, part_size - 1, part_size, part_size + 1, 2 * part_size + 1}

\* A directory entry that is not a regular file (os.path.isfile is False).
NotAFile == 0 - 1

VARIABLES
    (* ---- environment -------------------------------------------------- *)
    redisUp,        \* the status store can be reached (get_redis_client succeeds)
    awsConfigured,  \* all of AWS_ACCESS_KEY, AWS_SECRET_KEY, AWS_BUCKET_NAME, AWS_REGION are set
    (* ---- one job ------------------------------------------------------ *)
    pc,             \* pc[j]: where job j's request handler or background task stands
    store,          \* store[j]: the value stored under key j, or "absent"
    writes,         \* writes[j]: the values written under key j, in order
    attempts,       \* attempts[j]: the values set_job_status was called with, in order
    background,     \* background[j]: _run_scraper_task was added to background_tasks
    response,       \* response[j]: "none", "202" (handler returned) or "500" (HTTPException)
    uploadArg,      \* uploadArg[j]: the directory upload_files was called on, or "none"
    uploadBefore,   \* uploadBefore[j]: upload_files was called before run_scraper returned
    uploaded,       \* uploaded[j]: what upload_files gave: "none" (not called), "raised",
                    \*              "empty" (the list []) or "files" (a non-empty list)
    download_dir,   \* download_dir[j]: run_scraper's download_dir, "" before it is set
    browser,        \* browser[j]: "unbound", "open" or "closed" (run_scraper's local `browser`)
    failPhase,      \* failPhase[j]: the phase whose exception run_scraper caught, or "none"
    page_counter,   \* page_counter[j]: run_scraper's page_counter
    scraper,        \* scraper[j]: "none", "running", "returned" or "raised"
    cleanupError,   \* cleanupError[j]: run_scraper's finally block raised
    hookStatus,     \* hookStatus[j]: the status of the payload being delivered, or "none"
    hooks,          \* hooks[j]: the payload status of every delivery attempt, in order
    calls,          \* calls[j]: the status argument of every send_webhook_notification
                    \*           call of job j, in order
    (* ---- StorageService.upload_files on one directory ------------------ *)
    isdir,          \* os.path.isdir(directory)
    listing,        \* os.listdir(directory): the size of each entry, NotAFile for a non-file
    upc,            \* where upload_files stands
    idx,            \* the index in listing of the entry being processed
    success_files,  \* upload_files' success_files: the indices appended, in order
    file_size,      \* multipart_upload's file_size
    upload_id,      \* multipart_upload's local upload_id: "unbound" or "bound"
    offset,         \* the bytes of the file read so far
    part_number,    \* multipart_upload's part_number
    parts,          \* the part numbers appended to multipart_upload's parts
    attempt,        \* the attempt of the retry loop in progress
    singleShot,     \* the entries upload_file was called for
    opened,         \* the entries a multipart session was opened for
    abortRequested, \* the entries whose session abort_multipart_upload was called for
    finalized,      \* the entries whose session complete_multipart_upload finalized
    exhausted,      \* the entries one of whose chunks failed on its last allowed attempt
    okFiles,        \* the entries whose transfer succeeded (single-shot or finalized)
    sleeps,         \* upload_file's sleeps, in order: the entry, the attempt, the seconds
    singleRaised,   \* the entries whose upload_file call ended by an exception
    lastKind,       \* the error of the previous attempt of the retry loop in progress
    retriedAfter,   \* the errors another attempt of the same transfer or chunk followed
    abandoned,      \* the errors a transfer or chunk was given up on with attempts left
    (* ---- one call of send_webhook_notification, attempt by attempt ------ *)
    wpc,            \* "off", "running", "returned" or "raised"
    posts,          \* what each client.post met, in order: a response or an exception
    waits,          \* the seconds of each asyncio.sleep of the call, in order
    statusBefore,   \* the job's stored status when the call was entered
    (* ---- one call of safe_find_and_click -------------------------------- *)
    rpc,            \* "off", "wait" (in wait_for_selector_with_retry), "click", "done",
                    \* or "login" (in the wait_for_selector_with_retry of a login field)
    chainLen,       \* len(selectors)
    sel,            \* the index in selectors of the loop's selector, from 1
    outer,          \* safe_find_and_click's `attempt`
    inner,          \* wait_for_selector_with_retry's `attempt`
    outerDone,      \* outerDone[i]: the iterations of the attempt loop ended for locator i
    waitLog,        \* the locator of every page.wait_for_selector call, in order
    clickLog,       \* the locator of every page.click call, in order
    clickedSel,     \* the locator whose page.click succeeded, 0 when none did
    result,         \* what safe_find_and_click returned: "none" (running), "true", "false";
                    \* for a login field: "found", "not_found" or "raised"
    (* ---- GET /billing/status/{job_id} ----------------------------------- *)
    answer,         \* answer[k]: the last answer for id k: the HTTP code (0: never asked),
                    \*            the status of its body, and what was stored when asked
    (* ---- the download handlers of one run_scraper session ---------------- *)
    dpc,            \* "off", "collecting" (page.on("download") registered) or "closed"
    downloads,      \* the download events raised
    handlers,       \* the download_and_validate tasks created and not finished
    validated,      \* the entries of the download directory download_and_validate
                    \* returned the path of
    (* ---- run_scraper, its steps told apart --------------------------- *)
    unresolved,     \* the steps of run_scraper whose element was reported not found
    (* ---- the download folders of the sessions ------------------------ *)
    now,            \* the wall clock, in ticks of 1/TicksPerSecond second
    dirOf,          \* dirOf[j]: the folder setup_download_folder returned to job j (<<>>: none yet)
    nsaved,         \* nsaved[j]: the downloads the handlers of job j saved
    contents        \* the files in the folders: the folder, and the job that saved the file

jobVars == <<redisUp, awsConfigured, pc, store, writes, attempts, background, response,
             uploadArg, uploadBefore, uploaded, download_dir, browser, failPhase,
             page_counter, scraper, cleanupError, hookStatus, hooks, calls>>

upVars == <<isdir, listing, upc, idx, success_files, file_size, upload_id, offset,
            part_number, parts, attempt, singleShot, opened, abortRequested,
            finalized, exhausted, okFiles, sleeps, singleRaised, lastKind, retriedAfter,
            abandoned>>

webVars == <<wpc, posts, waits, statusBefore>>

resVars == <<rpc, chainLen, sel, outer, inner, outerDone, waitLog, clickLog, clickedSel, result>>

queryVars == <<answer>>

collectVars == <<dpc, downloads, handlers, validated>>

stepVars == <<unresolved>>

dirVars == <<now, dirOf, nsaved, contents>>

vars == <<jobVars, upVars, webVars, resVars, queryVars, collectVars, stepVars, dirVars>>

\* What no step of a job, of upload_files, of safe_find_and_click touches.
offJobVars == <<upVars, resVars, queryVars, collectVars, stepVars, dirVars>>
offUploadVars == <<jobVars, webVars, resVars, queryVars, collectVars, stepVars, dirVars>>
offResolverVars == <<jobVars, upVars, webVars, queryVars, collectVars, stepVars, dirVars>>

Terminal == {"completed", "failed"}

\* set_job_status waiting for the store for ever instead of giving up after
\* its connection attempts: nothing follows the call while the store
\* cannot be reached.
set_job_status_blocking(j, s) ==
    /\ redisUp
    /\ attempts' = [attempts EXCEPT ![j] = Append(@, s)]
    /\ store' = [store EXCEPT ![j] = s]
    /\ writes' = [writes EXCEPT ![j] = Append(@, s)]

(***************************************************************************)
(* redis_helper.set_job_status: the write is attempted; every exception    *)
(* (the store unreachable, set raising) is logged and swallowed.           *)
(***************************************************************************)
set_job_status(j, s) ==
    /\ attempts' = [attempts EXCEPT ![j] = Append(@, s)]
    /\ IF redisUp
       THEN /\ store' = [store EXCEPT ![j] = s]
            /\ writes' = [writes EXCEPT ![j] = Append(@, s)]
       ELSE UNCHANGED <<store, writes>>

InitJobs ==
    /\ redisUp \in BOOLEAN
    /\ awsConfigured \in BOOLEAN
    /\ pc = [j \in Jobs |-> "idle"]
    /\ store = [j \in Jobs |-> "absent"]
    /\ writes = [j \in Jobs |-> <<>>]
    /\ attempts = [j \in Jobs |-> <<>>]
    /\ background = [j \in Jobs |-> FALSE]
    /\ response = [j \in Jobs |-> "none"]
    /\ uploadArg = [j \in Jobs |-> "none"]
    /\ uploadBefore = [j \in Jobs |-> FALSE]
    /\ uploaded = [j \in Jobs |-> "none"]
    /\ download_dir = [j \in Jobs |-> ""]
    /\ browser = [j \in Jobs |-> "unbound"]
    /\ failPhase = [j \in Jobs |-> "none"]
    /\ page_counter = [j \in Jobs |-> 0]
    /\ scraper = [j \in Jobs |-> "none"]
    /\ cleanupError = [j \in Jobs |-> FALSE]
    /\ hookStatus = [j \in Jobs |-> "none"]
    /\ hooks = [j \in Jobs |-> <<>>]
    /\ calls = [j \in Jobs |-> <<>>]

engineVars == <<download_dir, browser, failPhase, page_counter, scraper, cleanupError>>
hookVars == <<hookStatus, hooks, calls>>
uploadCallVars == <<uploadArg, uploadBefore, uploaded>>
envVars == <<redisUp, awsConfigured>>

(***************************************************************************)
(* routes.retrieve_billing_data, the handler of POST /billing/retrieve.    *)
(***************************************************************************)

\* job_handler.run_scraper_job: a fresh job id, status pending, and the task
\* added to the request's background tasks. set_job_status swallows its
\* errors, so the except branch (RuntimeError) is never taken.
run_scraper_job(j) ==
    /\ pc[j] = "idle"
    /\ set_job_status(j, "pending")
    /\ background' = [background EXCEPT ![j] = TRUE]
    /\ pc' = [pc EXCEPT ![j] = "r_downloading"]
    /\ UNCHANGED <<offJobVars, webVars, envVars, response, uploadCallVars, engineVars, hookVars>>

\* routes.py:35: await set_job_status(job_id, "downloading")
SetDownloading(j) ==
    /\ pc[j] = "r_downloading"
    /\ set_job_status(j, "downloading")
    /\ pc' = [pc EXCEPT ![j] = "r_storage"]
    /\ UNCHANGED <<offJobVars, webVars, envVars, background, response, uploadCallVars, engineVars, hookVars>>

\* routes.py:39: StorageService() raises EnvironmentError when the AWS
\* configuration is missing; the handler's except turns it into a 500.
StorageServiceInit(j) ==
    /\ pc[j] = "r_storage"
    /\ IF awsConfigured
       THEN /\ pc' = [pc EXCEPT ![j] = "r_uploading"]
            /\ UNCHANGED response
       ELSE /\ pc' = [pc EXCEPT ![j] = "http_500"]
            /\ response' = [response EXCEPT ![j] = "500"]
    /\ UNCHANGED <<offJobVars, webVars, envVars, store, writes, attempts, background, uploadCallVars, engineVars, hookVars>>

\* routes.py:42: await set_job_status(job_id, "uploading")
SetUploading(j) ==
    /\ pc[j] = "r_uploading"
    /\ set_job_status(j, "uploading")
    /\ pc' = [pc EXCEPT ![j] = "r_upload"]
    /\ UNCHANGED <<offJobVars, webVars, envVars, background, response, uploadCallVars, engineVars, hookVars>>

\* routes.py:46-48: upload_files(job_id). The result is what SpecUpload's
\* upload_files produces on a directory of the working directory named by the
\* job id: [] when there is none or it is empty, the list of the uploaded
\* files, or an exception. An empty list raises HTTPException, which, like
\* the exception, the handler's except turns into a 500.
RouteUploadFiles(j) ==
    /\ pc[j] = "r_upload"
    /\ \E r \in {"empty", "files", "raised"} :
         /\ uploaded' = [uploaded EXCEPT ![j] = r]
         /\ IF r = "files"
            THEN /\ pc' = [pc EXCEPT ![j] = "r_completed"]
                 /\ UNCHANGED response
            ELSE /\ pc' = [pc EXCEPT ![j] = "http_500"]
                 /\ response' = [response EXCEPT ![j] = "500"]
    /\ uploadArg' = [uploadArg EXCEPT ![j] = "job_id"]
    /\ uploadBefore' = [uploadBefore EXCEPT ![j] = (scraper[j] # "returned")]
    /\ UNCHANGED <<offJobVars, webVars, envVars, store, writes, attempts, background, engineVars, hookVars>>

\* routes.py:51-54: status completed, and the handler returns its response.
RouteCompleted(j) ==
    /\ pc[j] = "r_completed"
    /\ set_job_status(j, "completed")
    /\ response' = [response EXCEPT ![j] = "202"]
    /\ pc' = [pc EXCEPT ![j] = "bg_queued"]
    /\ UNCHANGED <<offJobVars, webVars, envVars, background, uploadCallVars, engineVars, hookVars>>

(***************************************************************************)
(* job_handler._run_scraper_task, the background task. The framework runs  *)
(* the tasks added to background_tasks after the handler has returned its  *)
(* response; a handler that raises gives the exception handler's response, *)
(* which carries no background tasks.                                      *)
(***************************************************************************)

\* job_handler.py:43 and billingservice.py:130-131: status processing, then
\* run_scraper is entered and creates its timestamped download folder.
run_scraper_task(j) ==
    /\ pc[j] = "bg_queued"
    /\ background[j]
    /\ response[j] = "202"
    /\ set_job_status(j, "processing")
    /\ scraper' = [scraper EXCEPT ![j] = "running"]
    /\ download_dir' = [download_dir EXCEPT ![j] = "downloads_timestamp"]
    /\ pc' = [pc EXCEPT ![j] = "connect"]
    /\ UNCHANGED <<offJobVars, webVars, envVars, background, response, uploadCallVars, browser, failPhase,
                   page_counter, cleanupError, hookVars>>

(***************************************************************************)
(* billingservice.run_scraper. Every awaited call of the try block either  *)
(* returns or raises; the except clauses catch every exception, log it and *)
(* fall into the finally block.                                            *)
(***************************************************************************)

\* The statement after each straight-line statement of the try block.
Succ(p) ==
    CASE p = "new_context"      -> "new_page"
      [] p = "new_page"         -> "goto"
      [] p = "goto"             -> "username"
      [] p = "username"         -> "password"
      [] p = "password"         -> "nav_bar"
      [] p = "nav_bar"          -> "invoices"
      [] p = "invoices"         -> "first_checkbox"
      [] p = "first_checkbox"   -> "modal"
      [] p = "modal"            -> "page_loop"
      [] p = "download_option"  -> "confirm_download"
      [] p = "confirm_download" -> "final_screenshot"
      [] p = "final_screenshot" -> "finally"

\* An exception raised in phase p of the try block: caught and logged
\* (billingservice.py:202-205).
Caught(j, p) ==
    /\ failPhase' = [failPhase EXCEPT ![j] = p]
    /\ pc' = [pc EXCEPT ![j] = "finally"]

\* billingservice.py:136: browser = await p.chromium.connect_over_cdp(url)
ScraperConnect(j) ==
    /\ pc[j] = "connect"
    /\ \E ok \in BOOLEAN :
         IF ok
         THEN /\ browser' = [browser EXCEPT ![j] = "open"]
              /\ pc' = [pc EXCEPT ![j] = "new_context"]
              /\ UNCHANGED failPhase
         ELSE /\ Caught(j, "connect")
              /\ UNCHANGED browser
    /\ UNCHANGED <<offJobVars, webVars, envVars, store, writes, attempts, background, response, uploadCallVars,
                   download_dir, page_counter, scraper, cleanupError, hookVars>>

\* billingservice.py:137-144 and 198-199: new_context, new_page, goto and the
\* final screenshot: an awaited call that returns or raises.
ScraperCall(j) ==
    /\ pc[j] \in {"new_context", "new_page", "goto", "final_screenshot"}
    /\ \E ok \in BOOLEAN :
         IF ok
         THEN /\ pc' = [pc EXCEPT ![j] = Succ(pc[j])]
              /\ UNCHANGED failPhase
         ELSE Caught(j, pc[j])
    /\ UNCHANGED <<offJobVars, webVars, envVars, store, writes, attempts, background, response, uploadCallVars,
                   download_dir, browser, page_counter, scraper, cleanupError, hookVars>>

\* billingservice.py:147-156: the username and the password. The first
\* locator of the chain is waited for; when it is not found the step is
\* skipped. When it is found, human_type (playwright_helper.py:5, a plain
\* function that returns None) is awaited, and awaiting None raises TypeError.
\* wait_for_selector_with_retry catches the timeout alone: another error of
\* the page propagates.
ScraperLogin(j) ==
    /\ pc[j] \in {"username", "password"}
    /\ \E r \in {"found", "not_found", "error"} :
         IF r = "not_found"
         THEN /\ pc' = [pc EXCEPT ![j] = Succ(pc[j])]
              /\ UNCHANGED failPhase
         ELSE Caught(j, pc[j])
    /\ UNCHANGED <<offJobVars, webVars, envVars, store, writes, attempts, background, response, uploadCallVars,
                   download_dir, browser, page_counter, scraper, cleanupError, hookVars>>

\* billingservice.py:159-162, 173, 195-196: safe_find_and_click on the
\* navigation bar, the invoices link, the modal's close button, the download
\* option and the confirm button. It returns True or False and never raises
\* (lines 86-100); the engine goes on to the next statement either way.
ScraperClick(j) ==
    /\ pc[j] \in {"nav_bar", "invoices", "modal", "download_option", "confirm_download"}
    /\ \E clicked \in BOOLEAN :
         pc' = [pc EXCEPT ![j] = Succ(pc[j])]
    /\ UNCHANGED <<offJobVars, webVars, envVars, store, writes, attempts, background, response, uploadCallVars,
                   engineVars, hookVars>>

\* billingservice.py:165-170: the first invoice checkbox; when it was clicked
\* a screenshot is taken, which may raise.
ScraperFirstCheckbox(j) ==
    /\ pc[j] = "first_checkbox"
    /\ \E clicked \in BOOLEAN, shot \in BOOLEAN :
         IF clicked /\ ~shot
         THEN Caught(j, "first_checkbox")
         ELSE /\ pc' = [pc EXCEPT ![j] = Succ(pc[j])]
              /\ UNCHANGED failPhase
    /\ UNCHANGED <<offJobVars, webVars, envVars, store, writes, attempts, background, response, uploadCallVars,
                   download_dir, browser, page_counter, scraper, cleanupError, hookVars>>

\* The loop with the test page_counter <= MAX_PAGES.
ScraperPageLoop_inclusive(j) ==
    /\ pc[j] = "page_loop"
    /\ IF page_counter[j] <= MAX_PAGES
       THEN \E ok \in BOOLEAN :
              IF ok
              THEN /\ page_counter' = [page_counter EXCEPT ![j] = @ + 1]
                   /\ pc' = [pc EXCEPT ![j] = "next_button"]
                   /\ UNCHANGED failPhase
              ELSE /\ Caught(j, "select_items")
                   /\ UNCHANGED page_counter
       ELSE /\ pc' = [pc EXCEPT ![j] = "download_button"]
            /\ UNCHANGED <<failPhase, page_counter>>
    /\ UNCHANGED <<offJobVars, webVars, envVars, store, writes, attempts, background, response, uploadCallVars,
                   download_dir, browser, scraper, cleanupError, hookVars>>

\* billingservice.py:177-182: the loop test, click_all_checkboxes (whose
\* checkboxes.count(), line 105, is outside its try and may raise) and page_counter += 1.
ScraperPageLoop(j) ==
    /\ pc[j] = "page_loop"
    /\ IF page_counter[j] < MAX_PAGES
       THEN \E ok \in BOOLEAN :
              IF ok
              THEN /\ page_counter' = [page_counter EXCEPT ![j] = @ + 1]
                   /\ pc' = [pc EXCEPT ![j] = "next_button"]
                   /\ UNCHANGED failPhase
              ELSE /\ Caught(j, "select_items")
                   /\ UNCHANGED page_counter
       ELSE /\ pc' = [pc EXCEPT ![j] = "download_button"]
            /\ UNCHANGED <<failPhase, page_counter>>
    /\ UNCHANGED <<offJobVars, webVars, envVars, store, writes, attempts, background, response, uploadCallVars,
                   download_dir, browser, scraper, cleanupError, hookVars>>

\* billingservice.py:185-189: the next-page control; break when no locator of
\* NEXT_BUTTON could be clicked.
ScraperNextButton(j) ==
    /\ pc[j] = "next_button"
    /\ \E clicked \in BOOLEAN :
         pc' = [pc EXCEPT ![j] = IF clicked THEN "page_loop" ELSE "download_button"]
    /\ UNCHANGED <<offJobVars, webVars, envVars, store, writes, attempts, background, response, uploadCallVars,
                   engineVars, hookVars>>

\* billingservice.py:192-196: the download button; the option and the
\* confirmation are clicked only when it was.
ScraperDownloadButton(j) ==
    /\ pc[j] = "download_button"
    /\ \E clicked \in BOOLEAN :
         pc' = [pc EXCEPT ![j] = IF clicked THEN "download_option" ELSE "final_screenshot"]
    /\ UNCHANGED <<offJobVars, webVars, envVars, store, writes, attempts, background, response, uploadCallVars,
                   engineVars, hookVars>>

\* billingservice.py:206-210: finally: await browser.close(), then return
\* download_dir. When connect_over_cdp raised, `browser` was never bound and
\* the finally block raises UnboundLocalError, which leaves run_scraper.
ScraperFinally(j) ==
    /\ pc[j] = "finally"
    /\ IF browser[j] = "unbound"
       THEN /\ cleanupError' = [cleanupError EXCEPT ![j] = TRUE]
            /\ scraper' = [scraper EXCEPT ![j] = "raised"]
            /\ UNCHANGED browser
       ELSE /\ browser' = [browser EXCEPT ![j] = "closed"]
            /\ scraper' = [scraper EXCEPT ![j] = "returned"]
            /\ UNCHANGED cleanupError
    /\ pc' = [pc EXCEPT ![j] = "scraped"]
    /\ UNCHANGED <<offJobVars, webVars, envVars, store, writes, attempts, background, response, uploadCallVars,
                   download_dir, failPhase, page_counter, hookVars>>

\* job_handler.py:47-56: run_scraper returned a (non-empty) directory: status
\* completed, then the notification with status completed.
TaskCompleted(j) ==
    /\ pc[j] = "scraped"
    /\ scraper[j] = "returned"
    /\ download_dir[j] # ""
    /\ set_job_status(j, "completed")
    /\ hookStatus' = [hookStatus EXCEPT ![j] = "completed"]
    /\ calls' = [calls EXCEPT ![j] = Append(@, "completed")]
    /\ pc' = [pc EXCEPT ![j] = "webhook"]
    /\ UNCHANGED <<offJobVars, webVars, envVars, background, response, uploadCallVars, engineVars, hooks>>

\* handle_job_failure without its notification: status failed and nothing sent.
handle_job_failure_silent(j) ==
    /\ pc[j] = "scraped"
    /\ (scraper[j] = "raised" \/ download_dir[j] = "")
    /\ set_job_status(j, "failed")
    /\ pc' = [pc EXCEPT ![j] = "task_done"]
    /\ UNCHANGED <<offJobVars, webVars, envVars, background, response, uploadCallVars, engineVars, hookVars>>

\* job_handler.py:58-79: run_scraper raised, or returned no directory (the
\* ValueError of line 49): handle_job_failure sets status failed and sends the
\* notification with status failed.
handle_job_failure(j) ==
    /\ pc[j] = "scraped"
    /\ (scraper[j] = "raised" \/ download_dir[j] = "")
    /\ set_job_status(j, "failed")
    /\ hookStatus' = [hookStatus EXCEPT ![j] = "failed"]
    /\ calls' = [calls EXCEPT ![j] = Append(@, "failed")]
    /\ pc' = [pc EXCEPT ![j] = "webhook"]
    /\ UNCHANGED <<offJobVars, webVars, envVars, background, response, uploadCallVars, engineVars, hooks>>

\* The delivery attempt with an error that leaves send_webhook_notification:
\* raised by the call of line 56, it reaches the handler of line 64, whose
\* handle_job_failure records the job failed and sends the failed notification.
send_webhook_notification_raising(j) ==
    /\ pc[j] = "webhook"
    /\ Len(hooks[j]) < WEBHOOK_MAX_RETRIES
    /\ hooks' = [hooks EXCEPT ![j] = Append(@, hookStatus[j])]
    /\ \E r \in {"delivered", "failed", "raised"} :
         IF r = "raised" /\ hookStatus[j] = "completed"
                         /\ Len(hooks[j]) + 1 < WEBHOOK_MAX_RETRIES
         THEN /\ set_job_status(j, "failed")
              /\ hookStatus' = [hookStatus EXCEPT ![j] = "failed"]
              /\ calls' = [calls EXCEPT ![j] = Append(@, "failed")]
              /\ UNCHANGED pc
         ELSE /\ pc' = [pc EXCEPT ![j] =
                         IF r = "delivered" \/ Len(hooks[j]) + 1 = WEBHOOK_MAX_RETRIES
                         THEN "task_done" ELSE "webhook"]
              /\ UNCHANGED <<store, writes, attempts, hookStatus, calls>>
    /\ UNCHANGED <<offJobVars, webVars, envVars, background, response, uploadCallVars,
                   engineVars>>

\* job_handler.py:99-119: one delivery attempt. A response of status 200 ends
\* the call; any other response, a transport error or an unexpected error is
\* logged and followed by a sleep, and the loop ends after max_retries attempts.
send_webhook_notification(j) ==
    /\ pc[j] = "webhook"
    /\ Len(hooks[j]) < WEBHOOK_MAX_RETRIES
    /\ hooks' = [hooks EXCEPT ![j] = Append(@, hookStatus[j])]
    /\ \E delivered \in BOOLEAN :
         pc' = [pc EXCEPT ![j] =
                  IF delivered \/ Len(hooks[j]) + 1 = WEBHOOK_MAX_RETRIES
                  THEN "task_done" ELSE "webhook"]
    /\ UNCHANGED <<offJobVars, webVars, envVars, store, writes, attempts, background, response, uploadCallVars,
                   engineVars, hookStatus, calls>>

(***************************************************************************)
(* send_webhook_notification, one loop iteration at a time, for the job    *)
(* whose call is followed (SpecWebhook).                                   *)
(***************************************************************************)

\* The response statuses the endpoint may answer with.
WebhookStatuses == {200, 201, 204, 404, 500}

\* What client.post gives: a response, httpx.RequestError or another exception.
WebhookOutcomes ==
    {[kind |-> "response", status |-> c] : c \in WebhookStatuses}
        \cup {[kind |-> "request_error", status |-> 0],
              [kind |-> "unexpected_error", status |-> 0]}

\* No call of send_webhook_notification is followed.
WebIdle ==
    /\ wpc = "off"
    /\ posts = <<>>
    /\ waits = <<>>
    /\ statusBefore = "absent"

\* The sleep with a fixed delay.
Backoff_constant(a) == 2

\* job_handler.py:116: await asyncio.sleep(2 ** attempt)
Backoff(a) == 2 ^ a

\* The loop iteration without the handler of line 112: an unexpected error
\* leaves send_webhook_notification; when the call was made from
\* _run_scraper_task (status completed), the handler of line 64 then records
\* the job failed.
send_webhook_attempt_uncaught(j) ==
    /\ pc[j] = "webhook"
    /\ Len(posts) < WEBHOOK_MAX_RETRIES
    /\ hooks' = [hooks EXCEPT ![j] = Append(@, hookStatus[j])]
    /\ statusBefore' = IF posts = <<>> THEN store[j] ELSE statusBefore
    /\ \E r \in WebhookOutcomes :
         /\ posts' = Append(posts, r)
         /\ IF r.kind = "response" /\ r.status = 200
            THEN /\ wpc' = "returned"
                 /\ pc' = [pc EXCEPT ![j] = "task_done"]
                 /\ UNCHANGED <<waits, store, writes, attempts>>
            ELSE IF r.kind = "unexpected_error"
            THEN /\ wpc' = "raised"
                 /\ pc' = [pc EXCEPT ![j] = "task_done"]
                 /\ IF hookStatus[j] = "completed"
                    THEN set_job_status(j, "failed")
                    ELSE UNCHANGED <<store, writes, attempts>>
                 /\ UNCHANGED waits
            ELSE /\ waits' = Append(waits, Backoff(Len(posts) + 1))
                 /\ IF Len(posts) + 1 = WEBHOOK_MAX_RETRIES
                    THEN /\ wpc' = "returned"
                         /\ pc' = [pc EXCEPT ![j] = "task_done"]
                    ELSE /\ wpc' = "running"
                         /\ UNCHANGED pc
                 /\ UNCHANGED <<store, writes, attempts>>
    /\ UNCHANGED <<offJobVars, envVars, background, response, uploadCallVars,
                   engineVars, hookStatus, calls>>

\* job_handler.py:99-119: the iteration `attempt` = Len(posts) + 1 of the loop.
\* A response of status 200 returns (line 106). Any other response (line 108),
\* httpx.RequestError (line 110) and any other exception (line 112) are
\* logged, then line 116 sleeps 2 ** attempt seconds, after the last attempt
\* too; after max_retries iterations the call returns (line 119).
send_webhook_attempt(j) ==
    /\ pc[j] = "webhook"
    /\ Len(posts) < WEBHOOK_MAX_RETRIES
    /\ hooks' = [hooks EXCEPT ![j] = Append(@, hookStatus[j])]
    /\ statusBefore' = IF posts = <<>> THEN store[j] ELSE statusBefore
    /\ \E r \in WebhookOutcomes :
         /\ posts' = Append(posts, r)
         /\ IF r.kind = "response" /\ r.status = 200
            THEN /\ wpc' = "returned"
                 /\ pc' = [pc EXCEPT ![j] = "task_done"]
                 /\ UNCHANGED waits
            ELSE /\ waits' = Append(waits, Backoff(Len(posts) + 1))
                 /\ IF Len(posts) + 1 = WEBHOOK_MAX_RETRIES
                    THEN /\ wpc' = "returned"
                         /\ pc' = [pc EXCEPT ![j] = "task_done"]
                    ELSE /\ wpc' = "running"
                         /\ UNCHANGED pc
    /\ UNCHANGED <<offJobVars, envVars, store, writes, attempts, background, response, uploadCallVars,
                   engineVars, hookStatus, calls>>

(***************************************************************************)
(* storageservice.StorageService.upload_files(directory) and, per file,    *)
(* multipart_upload, upload_file and abort_multipart_upload.               *)
(***************************************************************************)

Entries == FileSizes \cup {NotAFile}

Listings == UNION {[1 .. n -> Entries] : n \in 0 .. MaxFiles}

Min(a, b) == IF a <= b THEN a ELSE b

\* multipart_upload's locals, as they are before the call.
LocalsReset ==
    /\ file_size' = 0
    /\ upload_id' = "unbound"
    /\ offset' = 0
    /\ part_number' = 0
    /\ parts' = <<>>
    /\ attempt' = 0

locals == <<file_size, upload_id, offset, part_number, parts, attempt>>
sessionVars == <<singleShot, opened, abortRequested, finalized, exhausted, okFiles>>
retryVars == <<sleeps, singleRaised>>
classVars == <<lastKind, retriedAfter, abandoned>>

\* storageservice.py:43-59, 87-108: an attempt of a retry loop is made; when
\* it is not the first, it follows the error of the previous attempt.
Attempted(transfer) ==
    retriedAfter' = IF attempt > 1
                    THEN retriedAfter \cup {[transfer |-> transfer, kind |-> lastKind]}
                    ELSE retriedAfter

\* The retry loop is left on error r, with or without attempts left.
GivenUp(transfer, r) ==
    abandoned' = IF attempt < MAX_RETRIES
                 THEN abandoned \cup {[transfer |-> transfer, kind |-> r]}
                 ELSE abandoned

\* The state upload_files is not running in (the jobs' specification).
UploadIdle ==
    /\ isdir = FALSE
    /\ listing = <<>>
    /\ upc = "off"
    /\ idx = 0
    /\ success_files = <<>>
    /\ file_size = 0
    /\ upload_id = "unbound"
    /\ offset = 0
    /\ part_number = 0
    /\ parts = <<>>
    /\ attempt = 0
    /\ singleShot = {}
    /\ opened = {}
    /\ abortRequested = {}
    /\ finalized = {}
    /\ exhausted = {}
    /\ okFiles = {}
    /\ sleeps = <<>>
    /\ singleRaised = {}
    /\ lastKind = "none"
    /\ retriedAfter = {}
    /\ abandoned = {}

\* upload_files is called on a directory: any listing of at most MaxFiles entries.
InitUpload ==
    /\ isdir \in BOOLEAN
    /\ listing \in Listings
    /\ (~isdir => listing = <<>>)
    /\ upc = "start"
    /\ idx = 0
    /\ success_files = <<>>
    /\ file_size = 0
    /\ upload_id = "unbound"
    /\ offset = 0
    /\ part_number = 0
    /\ parts = <<>>
    /\ attempt = 0
    /\ singleShot = {}
    /\ opened = {}
    /\ abortRequested = {}
    /\ finalized = {}
    /\ exhausted = {}
    /\ okFiles = {}
    /\ sleeps = <<>>
    /\ singleRaised = {}
    /\ lastKind = "none"
    /\ retriedAfter = {}
    /\ abandoned = {}

\* storageservice.py:163-166: multipart_upload returned ok for entry idx;
\* upload_files appends the file when ok and goes on to the next entry.
Return(ok) ==
    /\ success_files' = IF ok THEN Append(success_files, idx) ELSE success_files
    /\ idx' = idx + 1
    /\ upc' = "entry"
    /\ LocalsReset

\* An exception leaves multipart_upload; upload_files has no handler, so it
\* leaves upload_files too.
Propagate ==
    /\ upc' = "raised"
    /\ UNCHANGED <<idx, success_files, locals>>

\* storageservice.py:147-155: no such directory, or an empty one: return [].
upload_files ==
    /\ upc = "start"
    /\ IF ~isdir \/ Len(listing) = 0
       THEN /\ upc' = "done"
            /\ UNCHANGED idx
       ELSE /\ upc' = "entry"
            /\ idx' = 1
    /\ UNCHANGED <<offUploadVars, retryVars, classVars, isdir, listing, success_files, locals, sessionVars>>

\* storageservice.py:157-167: the loop over os.listdir(directory); an entry
\* that is not a file is skipped; after the last entry success_files is returned.
NextEntry ==
    /\ upc = "entry"
    /\ IF idx > Len(listing)
       THEN /\ upc' = "done"
            /\ UNCHANGED idx
       ELSE IF listing[idx] = NotAFile
            THEN /\ idx' = idx + 1
                 /\ UNCHANGED upc
            ELSE /\ upc' = "getsize"
                 /\ UNCHANGED idx
    /\ UNCHANGED <<offUploadVars, retryVars, classVars, isdir, listing, success_files, locals, sessionVars>>

\* The threshold test with < in place of <=.
UseSingleShot_strict(size) == size < part_size

\* storageservice.py:71: if file_size <= part_size: single-shot.
UseSingleShot(size) == size <= part_size

\* storageservice.py:69-72: the size lookup and the choice of the transfer.
\* When getsize raises, the handler of line 127 calls abort_multipart_upload
\* with upload_id, which is not bound yet: UnboundLocalError leaves
\* multipart_upload.
multipart_upload ==
    /\ upc = "getsize"
    /\ \E ok \in BOOLEAN :
         IF ok
         THEN /\ file_size' = listing[idx]
              /\ IF UseSingleShot(listing[idx])
                 THEN /\ upc' = "single"
                      /\ attempt' = 1
                      /\ singleShot' = singleShot \cup {idx}
                 ELSE /\ upc' = "create"
                      /\ UNCHANGED <<attempt, singleShot>>
              /\ UNCHANGED <<idx, success_files, upload_id, offset, part_number, parts>>
         ELSE /\ Propagate
              /\ UNCHANGED singleShot
    /\ lastKind' = "none"
    /\ UNCHANGED <<offUploadVars, retryVars, retriedAfter, abandoned, isdir, listing, opened,
                   abortRequested, finalized, exhausted, okFiles>>

\* storageservice.py:38-61: one attempt of upload_file. A ClientError whose
\* code is RequestTimeout or Throttling is followed by a sleep and the next
\* attempt; another code, or another exception, breaks out of the loop; after
\* the loop False is returned. EndpointConnectionError carries no `response`:
\* line 50 raises AttributeError inside the handler, which leaves upload_file
\* and, in multipart_upload, reaches the handler of line 127 with upload_id
\* unbound.
upload_file ==
    /\ upc = "single"
    /\ Attempted("single")
    /\ \E r \in {"ok", "transient", "permanent", "endpoint", "other"} :
         CASE r = "ok" ->
                /\ Return(TRUE)
                /\ okFiles' = okFiles \cup {idx}
                /\ lastKind' = "none"
                /\ UNCHANGED <<retryVars, abandoned>>
           [] r = "transient" ->
                /\ sleeps' = Append(sleeps, [file |-> idx, attempt |-> attempt,
                                             seconds |-> RETRY_DELAY * attempt])
                /\ IF attempt < MAX_RETRIES
                   THEN /\ attempt' = attempt + 1
                        /\ UNCHANGED <<upc, idx, success_files, file_size, upload_id,
                                       offset, part_number, parts>>
                   ELSE Return(FALSE)
                /\ lastKind' = r
                /\ UNCHANGED <<okFiles, singleRaised, abandoned>>
           [] r \in {"permanent", "other"} ->
                /\ Return(FALSE)
                /\ lastKind' = r
                /\ GivenUp("single", r)
                /\ UNCHANGED <<okFiles, retryVars>>
           [] r = "endpoint" ->
                /\ Propagate
                /\ singleRaised' = singleRaised \cup {idx}
                /\ lastKind' = r
                /\ GivenUp("single", r)
                /\ UNCHANGED <<okFiles, sleeps>>
    /\ UNCHANGED <<offUploadVars, isdir, listing, singleShot, opened, abortRequested,
                   finalized, exhausted>>

\* storageservice.py:74-80: the multipart session is opened and upload_id
\* bound. When create_multipart_upload raises, the handlers of lines 121-129
\* call abort_multipart_upload with upload_id unbound.
create_multipart_upload ==
    /\ upc = "create"
    /\ \E ok \in BOOLEAN :
         IF ok
         THEN /\ upload_id' = "bound"
              /\ opened' = opened \cup {idx}
              /\ part_number' = 1
              /\ upc' = "read"
              /\ UNCHANGED <<idx, success_files, file_size, offset, parts, attempt>>
         ELSE /\ Propagate
              /\ UNCHANGED opened
    /\ UNCHANGED <<offUploadVars, retryVars, classVars, isdir, listing, singleShot, abortRequested, finalized,
                   exhausted, okFiles>>

\* storageservice.py:79-84: the file is opened and the next part read; an
\* empty read ends the loop. An error of the file reaches the handler of
\* line 127, which aborts the session.
read_part ==
    /\ upc = "read"
    /\ \E ok \in BOOLEAN :
         IF ok
         THEN IF offset < file_size
              THEN /\ offset' = offset + Min(part_size, file_size - offset)
                   /\ attempt' = 1
                   /\ upc' = "part"
              ELSE /\ upc' = "complete"
                   /\ UNCHANGED <<offset, attempt>>
         ELSE /\ upc' = "abort"
              /\ UNCHANGED <<offset, attempt>>
    /\ lastKind' = "none"
    /\ UNCHANGED <<offUploadVars, retryVars, retriedAfter, abandoned, isdir, listing, idx,
                   success_files, file_size, upload_id, part_number, parts, sessionVars>>

\* upload_part returning False on the last failed attempt without the abort.
upload_part_no_abort ==
    /\ upc = "part"
    /\ Attempted("chunk")
    /\ \E r \in {"ok", "transient", "permanent", "endpoint", "other"} :
         /\ lastKind' = IF r = "ok" THEN "none" ELSE r
         /\ CASE r = "ok" ->
                /\ parts' = Append(parts, part_number)
                /\ part_number' = part_number + 1
                /\ upc' = "read"
                /\ UNCHANGED <<attempt, exhausted, abandoned, idx, success_files, file_size,
                               upload_id, offset>>
              [] r \in {"transient", "permanent"} /\ attempt < MAX_RETRIES ->
                /\ attempt' = attempt + 1
                /\ UNCHANGED <<upc, part_number, parts, exhausted, abandoned, idx,
                               success_files, file_size, upload_id, offset>>
              [] r \in {"transient", "permanent"} /\ attempt = MAX_RETRIES ->
                /\ exhausted' = exhausted \cup {idx}
                /\ Return(FALSE)
                /\ UNCHANGED abandoned
              [] OTHER ->
                /\ upc' = "abort"
                /\ exhausted' = IF attempt = MAX_RETRIES
                                THEN exhausted \cup {idx} ELSE exhausted
                /\ GivenUp("chunk", r)
                /\ UNCHANGED <<attempt, part_number, parts, idx, success_files,
                               file_size, upload_id, offset>>
    /\ UNCHANGED <<offUploadVars, retryVars, isdir, listing, singleShot, opened, abortRequested,
                   finalized, okFiles>>

\* storageservice.py:87-109: one attempt of upload_part. A ClientError,
\* whatever its code (RequestTimeout and Throttling, or another), is retried
\* after a sleep while attempt < MAX_RETRIES; on the last attempt the
\* session is aborted and False returned. EndpointConnectionError (no
\* `response`, line 101) and any other exception reach the handler of
\* line 127, which aborts the session.
upload_part ==
    /\ upc = "part"
    /\ Attempted("chunk")
    /\ \E r \in {"ok", "transient", "permanent", "endpoint", "other"} :
         /\ lastKind' = IF r = "ok" THEN "none" ELSE r
         /\ CASE r = "ok" ->
                /\ parts' = Append(parts, part_number)
                /\ part_number' = part_number + 1
                /\ upc' = "read"
                /\ UNCHANGED <<attempt, exhausted, abandoned>>
              [] r \in {"transient", "permanent"} /\ attempt < MAX_RETRIES ->
                /\ attempt' = attempt + 1
                /\ UNCHANGED <<upc, part_number, parts, exhausted, abandoned>>
              [] OTHER ->
                /\ upc' = "abort"
                /\ exhausted' = IF attempt = MAX_RETRIES
                                THEN exhausted \cup {idx} ELSE exhausted
                /\ GivenUp("chunk", r)
                /\ UNCHANGED <<attempt, part_number, parts>>
    /\ UNCHANGED <<offUploadVars, retryVars, isdir, listing, idx, success_files, file_size, upload_id,
                   offset, singleShot, opened, abortRequested, finalized, okFiles>>

\* The finalization whose failure returns False without the abort.
complete_multipart_upload_no_abort ==
    /\ upc = "complete"
    /\ \E ok \in BOOLEAN :
         IF ok
         THEN /\ finalized' = finalized \cup {idx}
              /\ okFiles' = okFiles \cup {idx}
              /\ Return(TRUE)
         ELSE /\ Return(FALSE)
              /\ UNCHANGED <<finalized, okFiles>>
    /\ UNCHANGED <<offUploadVars, retryVars, classVars, isdir, listing, singleShot, opened, abortRequested, exhausted>>

\* storageservice.py:111-120: the session is finalized with the parts and
\* True returned; when the call raises, the handlers abort the session.
complete_multipart_upload ==
    /\ upc = "complete"
    /\ \E ok \in BOOLEAN :
         IF ok
         THEN /\ finalized' = finalized \cup {idx}
              /\ okFiles' = okFiles \cup {idx}
              /\ Return(TRUE)
         ELSE /\ upc' = "abort"
              /\ UNCHANGED <<idx, success_files, locals, finalized, okFiles>>
    /\ UNCHANGED <<offUploadVars, retryVars, classVars, isdir, listing, singleShot, opened, abortRequested, exhausted>>

\* storageservice.py:132-141 and 108, 130: the abort is requested (an error
\* of the request is logged and swallowed) and multipart_upload returns False.
abort_multipart_upload ==
    /\ upc = "abort"
    /\ abortRequested' = abortRequested \cup {idx}
    /\ Return(FALSE)
    /\ UNCHANGED <<offUploadVars, retryVars, classVars, isdir, listing, singleShot, opened, finalized, exhausted, okFiles>>

(***************************************************************************)
(* billingservice.safe_find_and_click(page, selectors) with the default    *)
(* retries and delay, and the wait_for_selector_with_retry calls it makes. *)
(***************************************************************************)

\* No call of safe_find_and_click is followed.
ResolverIdle ==
    /\ rpc = "off"
    /\ chainLen = 0
    /\ sel = 0
    /\ outer = 0
    /\ inner = 0
    /\ outerDone = [i \in 1 .. MaxChain |-> 0]
    /\ waitLog = <<>>
    /\ clickLog = <<>>
    /\ clickedSel = 0
    /\ result = "none"

\* safe_find_and_click is called on a chain of 1 .. MaxChain locators: the
\* first iteration of both loops, entering wait_for_selector_with_retry.
InitResolver ==
    /\ rpc = "wait"
    /\ chainLen \in 1 .. MaxChain
    /\ sel = 1
    /\ outer = 0
    /\ inner = 0
    /\ outerDone = [i \in 1 .. MaxChain |-> 0]
    /\ waitLog = <<>>
    /\ clickLog = <<>>
    /\ clickedSel = 0
    /\ result = "none"

\* billingservice.py:147, 153: a login field (a chain of 1 .. MaxChain
\* locators, LOGIN_USERNAME or LOGIN_PASSWORD) is looked for by
\* wait_for_selector_with_retry(page, chain[0]).
InitLoginField ==
    /\ rpc = "login"
    /\ chainLen \in 1 .. MaxChain
    /\ sel = 1
    /\ outer = 0
    /\ inner = 0
    /\ outerDone = [i \in 1 .. MaxChain |-> 0]
    /\ waitLog = <<>>
    /\ clickLog = <<>>
    /\ clickedSel = 0
    /\ result = "none"

\* billingservice.py:72-84, called at lines 147 and 153 on chain[0]: one
\* page.wait_for_selector. Found: True is returned and the field is typed
\* into. PlaywrightTimeoutError: the next of the WAIT_RETRIES attempts, and
\* False after the last: run_scraper skips the field. Another exception
\* leaves the function and reaches run_scraper's handlers.
login_wait_for_selector ==
    /\ rpc = "login"
    /\ waitLog' = Append(waitLog, sel)
    /\ \E r \in {"found", "timeout", "error"} :
         CASE r = "found" ->
                /\ result' = "found"
                /\ rpc' = "done"
                /\ UNCHANGED inner
           [] r = "timeout" /\ inner < WAIT_RETRIES - 1 ->
                /\ inner' = inner + 1
                /\ UNCHANGED <<rpc, result>>
           [] r = "timeout" /\ inner = WAIT_RETRIES - 1 ->
                /\ result' = "not_found"
                /\ rpc' = "done"
                /\ UNCHANGED inner
           [] r = "error" ->
                /\ result' = "raised"
                /\ rpc' = "done"
                /\ UNCHANGED inner
    /\ UNCHANGED <<offResolverVars, chainLen, sel, outer, outerDone, clickLog, clickedSel>>

\* billingservice.py:88-100: an iteration of `for attempt in range(retries)`
\* ended without a return: the next attempt for the same selector, then the
\* next selector, then `return False`.
NextAttempt ==
    /\ outerDone' = [outerDone EXCEPT ![sel] = @ + 1]
    /\ inner' = 0
    /\ IF outer < CLICK_RETRIES - 1
       THEN /\ outer' = outer + 1
            /\ rpc' = "wait"
            /\ UNCHANGED <<sel, result>>
       ELSE IF sel < chainLen
            THEN /\ sel' = sel + 1
                 /\ outer' = 0
                 /\ rpc' = "wait"
                 /\ UNCHANGED result
            ELSE /\ rpc' = "done"
                 /\ result' = "false"
                 /\ UNCHANGED <<sel, outer>>

\* billingservice.py:72-84, called at line 91 with its default retries: one
\* page.wait_for_selector(selector, timeout=delay * 1000). Found: True is
\* returned and line 92 clicks. PlaywrightTimeoutError: the next of the
\* WAIT_RETRIES attempts, and False after the last, which ends the caller's
\* iteration. Another exception leaves the function and is caught at line 95.
wait_for_selector_with_retry ==
    /\ rpc = "wait"
    /\ waitLog' = Append(waitLog, sel)
    /\ \E r \in {"found", "timeout", "error"} :
         CASE r = "found" ->
                /\ rpc' = "click"
                /\ UNCHANGED <<sel, outer, inner, outerDone, result>>
           [] r = "timeout" /\ inner < WAIT_RETRIES - 1 ->
                /\ inner' = inner + 1
                /\ UNCHANGED <<rpc, sel, outer, outerDone, result>>
           [] OTHER -> NextAttempt
    /\ UNCHANGED <<offResolverVars, chainLen, clickLog, clickedSel>>

\* The click whose success does not end the call.
page_click_no_return ==
    /\ rpc = "click"
    /\ clickLog' = Append(clickLog, sel)
    /\ \E ok \in BOOLEAN :
         /\ clickedSel' = IF ok /\ clickedSel = 0 THEN sel ELSE clickedSel
         /\ NextAttempt
    /\ UNCHANGED <<offResolverVars, chainLen, waitLog>>

\* billingservice.py:92-98: page.click(selector). It succeeds: return True.
\* It raises: the handler of line 95 logs, sleeps and the loop goes on.
page_click ==
    /\ rpc = "click"
    /\ clickLog' = Append(clickLog, sel)
    /\ \E ok \in BOOLEAN :
         IF ok
         THEN /\ clickedSel' = sel
              /\ result' = "true"
              /\ rpc' = "done"
              /\ UNCHANGED <<sel, outer, inner, outerDone>>
         ELSE /\ NextAttempt
              /\ UNCHANGED clickedSel
    /\ UNCHANGED <<offResolverVars, chainLen, waitLog>>

(***************************************************************************)
(* run_scraper's steps that resolve an element, with what each reported    *)
(* (SpecEngine).                                                           *)
(***************************************************************************)

\* No element was looked for.
StepsIdle == unresolved = {}

\* The steps that click through safe_find_and_click and go on to the next
\* statement whatever it returned (billingservice.py:159-162, 173, 195-196).
ClickSteps == {"nav_bar", "invoices", "modal", "download_option", "confirm_download"}

\* billingservice.py:147-196, one step that resolves an element.
\* username, password (lines 147-156): wait_for_selector_with_retry on the
\* first locator; False: the step is skipped; True: human_type is awaited,
\* which raises TypeError; another error of the page propagates.
\* The steps of ClickSteps: safe_find_and_click returns True or False and
\* the next statement follows.
\* first_checkbox (lines 164-170): on True a screenshot is taken, which may
\* raise. download_button (lines 192-196): on True the option and the
\* confirmation are clicked; on False the final screenshot follows.
ScraperResolveStep(j) ==
    /\ pc[j] \in {"username", "password", "first_checkbox", "download_button"} \cup ClickSteps
    /\ \E r \in {"found", "not_found", "error"} :
         /\ (r = "error" => pc[j] \in {"username", "password", "first_checkbox"})
         /\ unresolved' = IF r = "not_found" THEN unresolved \cup {pc[j]} ELSE unresolved
         /\ CASE pc[j] \in {"username", "password"} ->
                   IF r = "not_found"
                   THEN /\ pc' = [pc EXCEPT ![j] = Succ(pc[j])]
                        /\ UNCHANGED failPhase
                   ELSE Caught(j, pc[j])
              [] pc[j] \in ClickSteps ->
                   /\ pc' = [pc EXCEPT ![j] = Succ(pc[j])]
                   /\ UNCHANGED failPhase
              [] pc[j] = "first_checkbox" ->
                   IF r = "error"
                   THEN Caught(j, "first_checkbox")
                   ELSE /\ pc' = [pc EXCEPT ![j] = Succ(pc[j])]
                        /\ UNCHANGED failPhase
              [] pc[j] = "download_button" ->
                   /\ pc' = [pc EXCEPT ![j] =
                               IF r = "found" THEN "download_option" ELSE "final_screenshot"]
                   /\ UNCHANGED failPhase
    /\ UNCHANGED <<upVars, resVars, queryVars, collectVars, dirVars, webVars, envVars, store, writes, attempts,
                   background, response, uploadCallVars, download_dir, browser,
                   page_counter, scraper, cleanupError, hookVars>>

(***************************************************************************)
(* routes.check_job_status and redis_helper.get_job_status.                *)
(***************************************************************************)

\* No status was asked for.
QueryIdle == answer = [k \in Jobs |-> [code |-> 0, status |-> "none", stored |-> "absent"]]

\* redis_helper.py:48-58: the stored value, decoded; None when nothing (or
\* the empty string) is stored, and None too when the store cannot be
\* reached or the read raises (the handler of line 56).
get_job_status(k) ==
    IF redisUp /\ store[k] \notin {"absent", ""} THEN store[k] ELSE "None"

\* routes.py:75-86: the HTTPException of status 404 is raised at line 80
\* inside the try block; HTTPException is an Exception, so the handler of
\* line 84 catches it and raises the HTTPException of status 500 of line 86.
\* Otherwise line 83 returns the id and the status (HTTP 200).
check_job_status(k) ==
    /\ LET current_status == get_job_status(k)
           raisedInTry == IF current_status = "None" THEN 404 ELSE 0
       IN  answer' = [answer EXCEPT ![k] =
                        IF raisedInTry # 0
                        THEN [code |-> 500, status |-> "none", stored |-> store[k]]
                        ELSE [code |-> 200, status |-> current_status, stored |-> store[k]]]
    /\ UNCHANGED <<jobVars, upVars, webVars, resVars, dirVars, stepVars, collectVars>>

(***************************************************************************)
(* billingservice.download_and_validate, run for every download event of   *)
(* one run_scraper session (the handler registered at line 140), and the   *)
(* directory it fills.                                                     *)
(***************************************************************************)

\* No session is followed.
CollectIdle ==
    /\ dpc = "off"
    /\ downloads = 0
    /\ handlers = 0
    /\ validated = {}

\* billingservice.py:140: a download event of the page; the handler wraps
\* download_and_validate in asyncio.create_task and drops the task, which
\* nothing awaits.
download_event ==
    /\ dpc = "collecting"
    /\ downloads < MaxFiles
    /\ downloads' = downloads + 1
    /\ handlers' = handlers + 1
    /\ UNCHANGED <<jobVars, webVars, resVars, dirVars, stepVars, queryVars, dpc, validated, isdir, upc,
                   listing, idx, success_files, locals, sessionVars, retryVars, classVars>>

\* billingservice.py:114-126, one handler task run to its end:
\* download.save_as(file_path) raises (no file is left and the exception ends
\* the task), or writes a file of some size into download_dir. The path is
\* returned when the file exists and its size is > 0, None otherwise; in both
\* cases the file stays where it is. Once the browser is closed (line 207)
\* save_as has no browser to fetch the file from and raises.
download_and_validate ==
    /\ handlers > 0
    /\ handlers' = handlers - 1
    /\ \E saved \in BOOLEAN, size \in FileSizes :
         IF saved /\ dpc = "collecting"
         THEN /\ listing' = Append(listing, size)
              /\ validated' = IF size > 0
                              THEN validated \cup {Len(listing) + 1}
                              ELSE validated
         ELSE UNCHANGED <<listing, validated>>
    /\ UNCHANGED <<jobVars, webVars, resVars, dirVars, stepVars, queryVars, dpc, downloads, isdir, upc,
                   idx, success_files, locals, sessionVars, retryVars, classVars>>

\* billingservice.py:206-210: the finally block closes the browser and
\* run_scraper returns download_dir, whatever handler tasks are running;
\* upload_files is then run on that directory (storageservice.py:143-155 takes the directory
\* it is given and lists all of it; routes.py:46 gives it the job id).
CollectClose ==
    /\ dpc = "collecting"
    /\ dpc' = "closed"
    /\ upc' = "start"
    /\ UNCHANGED <<jobVars, webVars, resVars, dirVars, stepVars, queryVars, downloads, handlers,
                   validated, isdir, listing, idx, success_files, locals, sessionVars, retryVars, classVars>>

(***************************************************************************)
(* billingservice.setup_download_folder for each job's session, and the    *)
(* files the session's handlers save into the folder (SpecDirs).           *)
(***************************************************************************)

\* No session has a folder.
DirsIdle ==
    /\ now = 0
    /\ dirOf = [j \in Jobs |-> <<>>]
    /\ nsaved = [j \in Jobs |-> 0]
    /\ contents = {}

\* billingservice.py:25: datetime.now().strftime('%Y%m%d_%H%M%S') keeps the
\* whole seconds of the time and drops the rest.
strftime(t) == t \div TicksPerSecond

\* Time passes.
Tick ==
    /\ now < MaxNow
    /\ now' = now + 1
    /\ UNCHANGED <<jobVars, upVars, webVars, resVars, queryVars, collectVars, stepVars,
                   dirOf, nsaved, contents>>

\* billingservice.py:23-28, called at line 131 by each session: the folder
\* "downloads_<stamp>" of the working directory; os.makedirs(exist_ok=True)
\* accepts a folder that is already there.
setup_download_folder(j) ==
    /\ dirOf[j] = <<>>
    /\ dirOf' = [dirOf EXCEPT ![j] = <<"downloads", strftime(now)>>]
    /\ UNCHANGED <<jobVars, upVars, webVars, resVars, queryVars, collectVars, stepVars,
                   now, nsaved, contents>>

\* billingservice.py:116-117: a handler of job j's session saves a download
\* into the session's folder.
save_as(j) ==
    /\ dirOf[j] # <<>>
    /\ nsaved[j] < MaxFiles
    /\ nsaved' = [nsaved EXCEPT ![j] = @ + 1]
    /\ contents' = contents \cup {[dir |-> dirOf[j], job |-> j]}
    /\ UNCHANGED <<jobVars, upVars, webVars, resVars, queryVars, collectVars, stepVars,
                   now, dirOf>>

DirsNext ==
    \/ Tick
    \/ \E j \in Jobs : setup_download_folder(j)
    \/ \E j \in Jobs : save_as(j)

Init == InitJobs /\ UploadIdle /\ WebIdle /\ ResolverIdle /\ QueryIdle /\ CollectIdle /\ StepsIdle /\ DirsIdle

JobNext(j) ==
    \/ run_scraper_job(j)
    \/ SetDownloading(j)
    \/ StorageServiceInit(j)
    \/ SetUploading(j)
    \/ RouteUploadFiles(j)
    \/ RouteCompleted(j)
    \/ run_scraper_task(j)
    \/ ScraperConnect(j)
    \/ ScraperCall(j)
    \/ ScraperLogin(j)
    \/ ScraperClick(j)
    \/ ScraperFirstCheckbox(j)
    \/ ScraperPageLoop(j)
    \/ ScraperNextButton(j)
    \/ ScraperDownloadButton(j)
    \/ ScraperFinally(j)
    \/ TaskCompleted(j)
    \/ handle_job_failure(j)
    \/ send_webhook_notification(j)

Next == \E j \in Jobs : JobNext(j)

Spec == Init /\ [][Next]_vars

\* The event loop resumes every coroutine whose awaited call has returned or
\* raised: a job that can take a step eventually takes one.
FairSpec == Spec /\ \A j \in Jobs : WF_vars(JobNext(j))

\* upload_files on one directory, the jobs left aside.
UploadInit ==
    /\ InitJobs
    /\ redisUp
    /\ awsConfigured
    /\ InitUpload
    /\ WebIdle
    /\ ResolverIdle
    /\ QueryIdle
    /\ DirsIdle
    /\ StepsIdle
    /\ CollectIdle

UploadNext ==
    \/ upload_files
    \/ NextEntry
    \/ multipart_upload
    \/ upload_file
    \/ create_multipart_upload
    \/ read_part
    \/ upload_part
    \/ complete_multipart_upload
    \/ abort_multipart_upload

SpecUpload == UploadInit /\ [][UploadNext]_vars

\* The job whose notification is followed attempt by attempt.
WebhookJob == CHOOSE j \in Jobs : TRUE

\* One job from the request to the end of its task, its call of
\* send_webhook_notification taken one loop iteration at a time.
WebhookNext ==
    \/ run_scraper_job(WebhookJob)
    \/ SetDownloading(WebhookJob)
    \/ StorageServiceInit(WebhookJob)
    \/ SetUploading(WebhookJob)
    \/ RouteUploadFiles(WebhookJob)
    \/ RouteCompleted(WebhookJob)
    \/ run_scraper_task(WebhookJob)
    \/ ScraperConnect(WebhookJob)
    \/ ScraperCall(WebhookJob)
    \/ ScraperLogin(WebhookJob)
    \/ ScraperClick(WebhookJob)
    \/ ScraperFirstCheckbox(WebhookJob)
    \/ ScraperPageLoop(WebhookJob)
    \/ ScraperNextButton(WebhookJob)
    \/ ScraperDownloadButton(WebhookJob)
    \/ ScraperFinally(WebhookJob)
    \/ TaskCompleted(WebhookJob)
    \/ handle_job_failure(WebhookJob)
    \/ send_webhook_attempt(WebhookJob)

SpecWebhook == Init /\ [][WebhookNext]_vars

\* One resolution of an element, the rest left aside: a call of
\* safe_find_and_click, or the lookup of a login field.
ResolverInit ==
    /\ InitJobs
    /\ redisUp
    /\ awsConfigured
    /\ UploadIdle
    /\ WebIdle
    /\ (InitResolver \/ InitLoginField)
    /\ QueryIdle
    /\ DirsIdle
    /\ StepsIdle
    /\ CollectIdle

ResolverNext ==
    \/ wait_for_selector_with_retry
    \/ page_click
    \/ login_wait_for_selector

SpecResolver == ResolverInit /\ [][ResolverNext]_vars

\* The job whose engine is followed step by step.
EngineJob == CHOOSE j \in Jobs : TRUE

\* One job from the request to the end of its task, the steps of run_scraper
\* that resolve an element recording what they reported.
EngineNext ==
    \/ run_scraper_job(EngineJob)
    \/ SetDownloading(EngineJob)
    \/ StorageServiceInit(EngineJob)
    \/ SetUploading(EngineJob)
    \/ RouteUploadFiles(EngineJob)
    \/ RouteCompleted(EngineJob)
    \/ run_scraper_task(EngineJob)
    \/ ScraperConnect(EngineJob)
    \/ ScraperCall(EngineJob)
    \/ ScraperResolveStep(EngineJob)
    \/ ScraperPageLoop(EngineJob)
    \/ ScraperNextButton(EngineJob)
    \/ ScraperFinally(EngineJob)
    \/ TaskCompleted(EngineJob)
    \/ handle_job_failure(EngineJob)
    \/ send_webhook_notification(EngineJob)

SpecEngine == Init /\ [][EngineNext]_vars

SpecDirs == Init /\ [][DirsNext]_vars

\* The job that runs while statuses are asked for.
QueryJob == CHOOSE j \in Jobs : TRUE

\* One job from the request to the end of its task, and status queries, at
\* any moment, for its id and for an id no job was created with.
QueryNext ==
    \/ JobNext(QueryJob)
    \/ \E k \in Jobs : check_job_status(k)

SpecQuery == Init /\ [][QueryNext]_vars

\* run_scraper has created its download folder (billingservice.py:23-28) and
\* registered the download handler (line 140); nothing is uploaded yet.
CollectInit ==
    /\ InitJobs
    /\ redisUp
    /\ awsConfigured
    /\ WebIdle
    /\ ResolverIdle
    /\ QueryIdle
    /\ DirsIdle
    /\ StepsIdle
    /\ dpc = "collecting"
    /\ downloads = 0
    /\ handlers = 0
    /\ validated = {}
    /\ isdir = TRUE
    /\ listing = <<>>
    /\ upc = "off"
    /\ idx = 0
    /\ success_files = <<>>
    /\ file_size = 0
    /\ upload_id = "unbound"
    /\ offset = 0
    /\ part_number = 0
    /\ parts = <<>>
    /\ attempt = 0
    /\ singleShot = {}
    /\ opened = {}
    /\ abortRequested = {}
    /\ finalized = {}
    /\ exhausted = {}
    /\ okFiles = {}
    /\ sleeps = <<>>
    /\ singleRaised = {}
    /\ lastKind = "none"
    /\ retriedAfter = {}
    /\ abandoned = {}

CollectNext ==
    \/ download_event
    \/ download_and_validate
    \/ CollectClose
    \/ UploadNext

SpecCollect == CollectInit /\ [][CollectNext]_vars


(***************************************************************************)
(* The claims.                                                             *)
(***************************************************************************)

RECURSIVE IsSubseq(_, _)
IsSubseq(s, t) ==
    IF s = <<>> THEN TRUE
    ELSE IF t = <<>> THEN FALSE
    ELSE IF Head(s) = Head(t) THEN IsSubseq(Tail(s), Tail(t))
    ELSE IsSubseq(s, Tail(t))

Range(s) == {s[i] : i \in 1 .. Len(s)}

\* Nothing of job j is left to run: its request ended in a 500 (the task is
\* discarded with it) or its background task has finished.
Stopped(j) == pc[j] \in {"http_500", "task_done"}

\* C1: the values written under a job's id form a subsequence of
\* (pending, processing, completed) or of (pending, processing, failed).
C1_StatusSequence ==
    \A j \in Jobs :
        \/ IsSubseq(writes[j], <<"pending", "processing", "completed">>)
        \/ IsSubseq(writes[j], <<"pending", "processing", "failed">>)

\* C2: every job whose task was entered makes at least one delivery attempt,
\* and every delivery attempt carries status completed or failed.
C2_TerminalNotification ==
    /\ \A j \in Jobs : (scraper[j] # "none") ~> (hooks[j] # <<>>)
    /\ [](\A j \in Jobs : Range(hooks[j]) \subseteq Terminal)

\* Both branches: one job notified completed, the other notified failed.
C2_Witness ==
    \E j, k \in Jobs :
        /\ pc[j] = "task_done" /\ scraper[j] = "returned" /\ hooks[j] = <<"completed">>
        /\ pc[k] = "task_done" /\ scraper[k] = "raised" /\ Len(hooks[k]) = WEBHOOK_MAX_RETRIES
        /\ Range(hooks[k]) = {"failed"}

\* C3: a job whose pending status was recorded and of which nothing is left
\* to run has a terminal status (an accepted job ends completed or failed).
C3_AcceptedJobEndsTerminal ==
    \A j \in Jobs :
        ("pending" \in Range(writes[j]) /\ Stopped(j)) => store[j] \in Terminal

\* C4: when the engine failed in some phase (the store being reachable), the
\* finished job has status failed, its notifications carry failed, and no
\* browser session is left open.
C4_EngineFailureFailsJob ==
    \A j \in Jobs :
        (redisUp /\ failPhase[j] # "none" /\ pc[j] = "task_done") =>
            /\ store[j] = "failed"
            /\ Range(hooks[j]) = {"failed"}
            /\ browser[j] # "open"

\* C5: the uploader is called only after the engine returned and on the
\* directory it returned; a notification is sent only after the upload ended.
C5_StepsInOrder ==
    \A j \in Jobs :
        /\ (uploadArg[j] # "none" => (~uploadBefore[j] /\ uploadArg[j] = download_dir[j]))
        /\ (hooks[j] # <<>> => uploaded[j] # "none")

\* C6: a job whose upload gave no file is never recorded completed and ends
\* with status failed.
C6_ZeroUploadsFailJob ==
    \A j \in Jobs :
        uploaded[j] = "empty" =>
            /\ "completed" \notin Range(writes[j])
            /\ ((redisUp /\ Stopped(j)) => store[j] = "failed")

\* C7: when run_scraper has ended, by return or by exception, the browser was
\* closed and the finally block raised nothing.
C7_SessionReleased ==
    \A j \in Jobs :
        scraper[j] \in {"returned", "raised"} => (browser[j] = "closed" /\ ~cleanupError[j])

InList(i) == \E k \in 1 .. Len(success_files) : success_files[k] = i

\* multipart_upload has returned for entry i.
Returned(i) == idx > i \/ upc = "done"

\* C8: a file one of whose chunks failed on its last allowed attempt has had
\* its session's abort requested once multipart_upload has returned, is never
\* finalized and is not in the list of uploaded files.
C8_ExhaustedChunkAborts ==
    \A i \in exhausted :
        /\ i \in opened
        /\ i \notin finalized
        /\ ~InList(i)
        /\ (Returned(i) => i \in abortRequested)

\* upload_files returned; a file with an exhausted chunk is left out of the
\* list while another file is in it.
C8_Witness ==
    /\ upc = "done"
    /\ \E i \in exhausted : i \in abortRequested /\ ~InList(i)
    /\ success_files # <<>>

\* C9: upload_files never ends by an exception, and the list it returns holds
\* exactly the files whose transfer succeeded.
C9_BatchSurvivesFileFailure ==
    /\ upc # "raised"
    /\ (upc = "done" => Range(success_files) = okFiles)

\* The transfer chosen for entry i.
Chunked(i) == i \in opened \/ (idx = i /\ upc = "create")
Single(i) == i \in singleShot

\* C10: a file is sent chunked iff it is larger than 5 MiB; a file of at most
\* 5 MiB is sent single-shot and no multipart session is opened for it.
C10_ChunkedIffAboveThreshold ==
    \A i \in 1 .. Len(listing) :
        /\ (Chunked(i) => listing[i] > 5 * 1024 * 1024)
        /\ (Single(i) => (listing[i] <= 5 * 1024 * 1024 /\ i \notin opened))
        /\ ((listing[i] # NotAFile /\ Returned(i)) => (Chunked(i) \/ Single(i)))

\* A file of exactly 5 MiB sent single-shot, then one of 5 MiB + 1 sent chunked.
C10_Witness ==
    /\ Len(listing) = 2
    /\ listing[1] = 5 * 1024 * 1024 /\ 1 \in singleShot /\ 1 \notin opened
    /\ listing[2] = 5 * 1024 * 1024 + 1 /\ 2 \in opened /\ 2 \in finalized
    /\ upc = "done"

\* upload_file's sleeps for entry i, in order.
SleepsOf(i) == SelectSeq(sleeps, LAMBDA w : w.file = i)

\* C11: upload_file makes at most MAX_RETRIES attempts, sleeps
\* RETRY_DELAY * attempt after its attempt-th transient failure, never ends
\* by an exception, and has returned True exactly when an attempt succeeded.
C11_SingleShotRetry ==
    /\ (upc = "single" => attempt \in 1 .. MAX_RETRIES)
    /\ \A i \in singleShot :
         /\ Len(SleepsOf(i)) <= MAX_RETRIES
         /\ \A k \in 1 .. Len(SleepsOf(i)) :
              SleepsOf(i)[k].attempt = k /\ SleepsOf(i)[k].seconds = RETRY_DELAY * k
         /\ i \notin singleRaised
         /\ (Returned(i) => (InList(i) <=> i \in okFiles))

\* A response the endpoint answered with a status of the 2xx class.
Is2xx(r) == r.kind = "response" /\ r.status \in 200 .. 299

\* The response send_webhook_notification returns on (status 200).
Accepted(r) == r.kind = "response" /\ r.status = 200

\* C12: a call makes at most max_retries attempts, makes no attempt after
\* the one it succeeded on, and sleeps 2 ^ attempt seconds after its
\* attempt-th failure, so that the waits between attempts strictly increase.
C12_BoundedIncreasingBackoff ==
    /\ Len(posts) <= WEBHOOK_MAX_RETRIES
    /\ \A k \in 1 .. Len(posts) :
         Accepted(posts[k]) => (k = Len(posts) /\ wpc = "returned")
    /\ Len(waits) >= Len(posts) - 1
    /\ \A k \in 1 .. Len(waits) : waits[k] = 2 ^ k
    /\ \A k \in 1 .. Len(waits) - 1 : waits[k] < waits[k + 1]

\* Two failed attempts, then the accepted one: waits of 2 and 4 seconds.
C12_Witness ==
    /\ wpc = "returned"
    /\ Len(posts) = WEBHOOK_MAX_RETRIES
    /\ Accepted(posts[WEBHOOK_MAX_RETRIES])
    /\ waits = <<2, 4>>

\* C13: after a response of any 2xx status no further attempt is made: such
\* a response is the last of its call, and the call has returned.
C13_Any2xxDelivered ==
    \A k \in 1 .. Len(posts) :
        Is2xx(posts[k]) => (k = Len(posts) /\ wpc = "returned")

\* C14: send_webhook_notification never ends by an exception, and from its
\* first attempt on the job's stored status is the one it had when the call
\* was entered.
C14_NotificationNeverRaises ==
    /\ wpc # "raised"
    /\ (posts # <<>> => store[WebhookJob] = statusBefore)

\* Every attempt met an unexpected error; the call returned and the job
\* recorded completed is still completed.
C14_Witness ==
    /\ wpc = "returned"
    /\ Len(posts) = WEBHOOK_MAX_RETRIES
    /\ \A k \in 1 .. Len(posts) : posts[k].kind = "unexpected_error"
    /\ statusBefore = "completed"
    /\ store[WebhookJob] = "completed"

\* The number of entries of the log s that are locator i.
Count(s, i) == Cardinality({k \in 1 .. Len(s) : s[k] = i})

\* s never goes back to a lower index.
InOrder(s) == \A k \in 1 .. Len(s) - 1 : s[k] <= s[k + 1]

\* C15: the locators are waited for and clicked in the order of the chain; a
\* locator is tried only when every locator before it has used up all its
\* attempts; after the first successful click the call has returned True and
\* nothing more was tried.
C15_LocatorsInDeclaredOrder ==
    /\ InOrder(waitLog)
    /\ InOrder(clickLog)
    /\ \A i \in Range(waitLog) \cup Range(clickLog) :
         \A m \in 1 .. i - 1 : outerDone[m] = CLICK_RETRIES
    /\ (clickedSel # 0 =>
          /\ result = "true"
          /\ rpc = "done"
          /\ waitLog[Len(waitLog)] = clickedSel
          /\ clickLog[Len(clickLog)] = clickedSel)
    /\ (result = "true" => clickedSel # 0)

\* The first locator used up its attempts (one of them a click that raised),
\* the second was clicked and the call returned True.
C15_Witness ==
    /\ result = "true"
    /\ clickedSel = 2
    /\ outerDone[1] = CLICK_RETRIES
    /\ Count(clickLog, 1) > 0

\* C16: a call waits for each locator at most `retries` times, hence at most
\* len(chain) * retries times in all.
C16_WaitAttemptsBounded ==
    /\ \A i \in 1 .. chainLen : Count(waitLog, i) <= CLICK_RETRIES
    /\ Len(waitLog) <= chainLen * CLICK_RETRIES

\* C17: items are selected on at most MAX_PAGES pages; the loop is left when
\* no next-page control could be clicked or when page_counter has reached
\* MAX_PAGES, and both ways lead to the download button with no failure
\* recorded.
C17_PaginationBounded ==
    /\ [](\A j \in Jobs : page_counter[j] <= MAX_PAGES)
    /\ [][\A j \in Jobs :
            /\ (page_counter'[j] # page_counter[j] =>
                  /\ pc[j] = "page_loop"
                  /\ page_counter[j] < MAX_PAGES
                  /\ page_counter'[j] = page_counter[j] + 1)
            /\ ((pc[j] = "page_loop" /\ page_counter[j] >= MAX_PAGES /\ pc'[j] # pc[j]) =>
                  (pc'[j] = "download_button" /\ failPhase'[j] = failPhase[j]))
            /\ ((pc[j] = "next_button" /\ pc'[j] # pc[j]) =>
                  /\ pc'[j] \in {"page_loop", "download_button"}
                  /\ failPhase'[j] = failPhase[j])
            /\ ((pc'[j] = "download_button" /\ pc[j] # "download_button") =>
                  \/ pc[j] = "next_button"
                  \/ pc[j] = "page_loop" /\ page_counter[j] = MAX_PAGES)]_vars

\* Both endings: one job left the loop before the limit (no next-page
\* control) and stands at the download button; the other has selected items
\* on MAX_PAGES pages, clicked the next-page control and is at the loop test.
C17_Witness ==
    \E j, k \in Jobs :
        /\ pc[j] = "download_button" /\ page_counter[j] < MAX_PAGES
        /\ failPhase[j] = "none"
        /\ pc[k] = "page_loop" /\ page_counter[k] = MAX_PAGES
        /\ failPhase[k] = "none"

\* C18: a download that failed validation is dropped: the download directory
\* holds validated files only, upload_files starts a transfer for validated
\* files only, and the list it builds holds validated files only.
C18_InvalidDownloadDropped ==
    /\ \A i \in 1 .. Len(listing) : i \in validated
    /\ (singleShot \cup opened) \subseteq validated
    /\ Range(success_files) \subseteq validated

\* A step of job j's orchestrator: run_scraper_job, _run_scraper_task (its
\* entry and its completion) or handle_job_failure.
OrchestratorStep(j) ==
    \/ run_scraper_job(j)
    \/ run_scraper_task(j)
    \/ TaskCompleted(j)
    \/ handle_job_failure(j)

\* C19: every write under a job's id is a step of that job's orchestrator.
C19_SingleStatusWriter ==
    [][\A j \in Jobs : writes'[j] # writes[j] => OrchestratorStep(j)]_vars

\* C20: the answer for an id with nothing stored is HTTP 404; the answer for
\* an id with a stored status is HTTP 200 with that status.
C20_UnknownJobNotFound ==
    \A k \in Jobs :
        answer[k].code # 0 =>
            IF answer[k].stored = "absent"
            THEN answer[k].code = 404
            ELSE answer[k].code = 200 /\ answer[k].status = answer[k].stored

\* The steps whose selector chain the engine cannot do without: the login
\* fields, the invoices link, the item selection, the download button.
RequiredSteps == {"username", "password", "invoices", "first_checkbox", "download_button"}

\* C21: once the element of a required step was reported not found, the
\* engine is in its cleanup or has ended, no later step having run, and its
\* directory is not reported as a success (no notification of completion).
C21_ExhaustedChainFailsEngine ==
    (unresolved \cap RequiredSteps # {}) =>
        /\ pc[EngineJob] \in {"finally", "scraped", "webhook", "task_done"}
        /\ failPhase[EngineJob] # "none"
        /\ hookStatus[EngineJob] # "completed"

\* C22: an element is reported not found (safe_find_and_click returned
\* False, or the lookup of a login field did) only when every locator of its
\* chain has been waited for.
C22_NotFoundAfterWholeChain ==
    result \in {"false", "not_found"} =>
        \A i \in 1 .. chainLen : Count(waitLog, i) > 0

\* The errors of the transient class: RequestTimeout and Throttling.
TransientOnly(fs) == \A f \in fs : f.kind = "transient"

\* C23: in the single-shot and in the chunked transfer, only a transient
\* error is ever followed by another attempt of the same transfer or chunk,
\* and no transfer or chunk is given up on a transient error while attempts
\* are left.
C23_OnlyTransientRetried ==
    /\ TransientOnly(retriedAfter)
    /\ \A f \in abandoned : f.kind # "transient"

\* The status values a job's request and task pass to set_job_status, in the
\* order of the calls, for a task that ends with status `last`.
StatusCalls(last) ==
    <<"pending", "downloading", "uploading", "completed", "processing", last>>

IsPrefix(s, t) == Len(s) <= Len(t) /\ SubSeq(t, 1, Len(s)) = s

\* C24: a status store that cannot be written never blocks or aborts the
\* pipeline: every job still runs to its end, the write of every transition
\* is attempted in order, and a job whose task ran has run the automation
\* and attempted its terminal notification.
C24_StoreFailureNeverBlocks ==
    /\ \A j \in Jobs : (~redisUp /\ pc[j] = "idle") ~> Stopped(j)
    /\ [](\A j \in Jobs :
            ~redisUp =>
              /\ writes[j] = <<>>
              /\ \E last \in Terminal : IsPrefix(attempts[j], StatusCalls(last))
              /\ pc[j] = "task_done" =>
                    /\ scraper[j] \in {"returned", "raised"}
                    /\ hooks[j] # <<>>
                    /\ attempts[j] = StatusCalls(hookStatus[j]))

\* With the store unreachable, one job ends notified completed and another
\* notified failed, all six writes attempted and none recorded.
C24_Witness ==
    /\ ~redisUp
    /\ \E j, k \in Jobs :
         /\ pc[j] = "task_done" /\ hooks[j] = <<"completed">>
         /\ attempts[j] = StatusCalls("completed")
         /\ pc[k] = "task_done" /\ Range(hooks[k]) = {"failed"}
         /\ attempts[k] = StatusCalls("failed")
         /\ store[j] = "absent" /\ store[k] = "absent"

\* multipart_upload was left for entry i, by a return or by an exception.
Left(i) == Returned(i) \/ (upc = "raised" /\ idx = i)

\* C25: once multipart_upload has been left, the session it opened is either
\* finalized or has had its abort requested, and never both; only opened
\* sessions are finalized or aborted.
C25_SessionFinalizedXorAborted ==
    /\ finalized \cup abortRequested \subseteq opened
    /\ finalized \cap abortRequested = {}
    /\ \A i \in opened : Left(i) => (i \in finalized \/ i \in abortRequested)

\* upload_files returned after two sessions: one finalized, the other
\* aborted after a failure that was not a chunk's last attempt.
C25_Witness ==
    /\ upc = "done"
    /\ \E i, k \in opened :
         /\ i \in finalized
         /\ k \in abortRequested
         /\ k \notin exhausted

\* C26: once the engine has closed the browser and returned the directory,
\* no download handler is still running: every download event raised during
\* the session has been handled to its end.
C26_NoHandlerRunningAtReturn ==
    dpc = "closed" => handlers = 0

\* C27: two distinct jobs never have the same download folder, and no folder
\* holds files saved by two jobs.
C27_FoldersJobScoped ==
    /\ \A j, k \in Jobs :
         (j # k /\ dirOf[j] # <<>> /\ dirOf[k] # <<>>) => dirOf[j] # dirOf[k]
    /\ \A f, g \in contents : f.dir = g.dir => f.job = g.job

Last(q) == q[Len(q)]

\* C28: a job calls send_webhook_notification at most once; the status of
\* the call, and of every delivery attempt, is completed or failed and is the
\* last status the job's task passed to set_job_status (and the last one
\* recorded, when the store is reachable); so no job sends both a completed
\* and a failed notification.
C28_SingleNotificationOfLastStatus ==
    \A j \in Jobs :
        /\ Len(calls[j]) <= 1
        /\ Range(hooks[j]) \subseteq Range(calls[j])
        /\ ~({"completed", "failed"} \subseteq Range(hooks[j]))
        /\ calls[j] # <<>> =>
              /\ calls[j][1] \in Terminal
              /\ "processing" \in Range(attempts[j])
              /\ Last(attempts[j]) = calls[j][1]
              /\ redisUp => Last(writes[j]) = calls[j][1]

\* The store being reachable, one job has sent its completed notification
\* and another all the attempts of its failed notification.
C28_Witness ==
    /\ redisUp
    /\ \E j, k \in Jobs :
         /\ pc[j] = "task_done" /\ calls[j] = <<"completed">>
         /\ hooks[j] # <<>> /\ Last(writes[j]) = "completed"
         /\ pc[k] = "task_done" /\ calls[k] = <<"failed">>
         /\ Len(hooks[k]) = WEBHOOK_MAX_RETRIES /\ Last(writes[k]) = "failed"

====
